---- MODULE Spec2Model ----
(***************************************************************************)
(* The S3 cleanup engine of on-prem-scripts: s3-scripts/s3_utils.py        *)
(* (S3Utils, S3FilterUtils) and s3-scripts/s3_cleaner.py (S3Cleaner,       *)
(* main).                                                                  *)
(*                                                                         *)
(* Strings are sequences of one-character strings, so that the last        *)
(* character, a slice, a substring test and int() are computed as Python   *)
(* computes them.  An optional value (Python's None or a value) is a       *)
(* record [some |-> FALSE] or [some |-> TRUE, v |-> value].  A datetime is *)
(* [day, min, tz]: the proleptic ordinal of its date, the minute of the    *)
(* day, and whether it carries a timezone (aware) or not (naive).          *)
(***************************************************************************)
EXTENDS Integers, Sequences, FiniteSets, TLC

VARIABLES
    pc,               \* position of the running call
    args,             \* the arguments of the call (CLI flags / parameters)
    now,              \* the clock read by datetime.now()
    bucket,           \* whether the bucket exists in the store
    returns,          \* what the single operations of S3Utils returned, in order
    store,            \* the bucket: its objects, in the order the store lists them
    deleted,          \* the keys the store has deleted from the bucket, in order
    calls,            \* every call made to the store or the filesystem, in order
    raised,           \* the exception that ended the call, or "none"
    parsed,           \* (min_date, max_date, min_bytes, max_bytes) of clean_objects
    page,             \* number of listing pages fetched so far
    all_objects,      \* clean_objects: all_objects
    filtered_objects, \* clean_objects: filtered_objects
    applied,          \* filter families applied so far (repeated filter_objects calls)
    results,          \* clean_objects: results
    keys,             \* delete_objects_batch: keys
    max_workers,      \* delete_objects_batch: max_workers
    i,                \* delete_objects_batch: loop index i
    successful,       \* delete_objects_batch: successful
    failed,           \* delete_objects_batch: failed
    ret,              \* the value returned by the call
    exit_code         \* the process exit status of main (-1 while running)

vars == <<pc, args, now, bucket, returns, store, deleted, calls, raised,
          parsed, page, all_objects, filtered_objects, applied, results, keys,
          max_workers, i, successful, failed, ret, exit_code>>

----------------------------------------------------------------------------
(* Bounds of the model. *)

\* longest older_than string drawn from TimeAlphabet
MaxLen == 3
\* longest object list handed to filter_objects, and largest bucket
MaxObjs == 3
\* the store returns at most PageSize objects per page of a listing
PageSize == 2
\* delete_objects_batch is called with up to MaxChunks * batch_size keys
MaxChunks == 2
\* a caller of S3Utils issues up to MaxOps single operations
MaxOps == 3

----------------------------------------------------------------------------
(* Python values. *)

None == [some |-> FALSE]
Some(x) == [some |-> TRUE, v |-> x]

\* bool(s) of an optional string or list: None and the empty one are falsy
TruthySeq(o) == o.some /\ Len(o.v) > 0
\* bool(n) of an optional int: None and 0 are falsy
TruthyInt(o) == o.some /\ o.v # 0

Digits == <<"0", "1", "2", "3", "4", "5", "6", "7", "8", "9">>
IsDigit(c) == \E d \in 1..10 : Digits[d] = c
DigitVal(c) == (CHOOSE d \in 1..10 : Digits[d] = c) - 1
IsSpace(c) == c = " "

UpperCase == <<"A", "B", "C", "D", "E", "F", "G", "H", "I", "J", "K", "L", "M",
               "N", "O", "P", "Q", "R", "S", "T", "U", "V", "W", "X", "Y", "Z">>
LowerCase == <<"a", "b", "c", "d", "e", "f", "g", "h", "i", "j", "k", "l", "m",
               "n", "o", "p", "q", "r", "s", "t", "u", "v", "w", "x", "y", "z">>
\* str.lower() on one character, and on a string
Lower(c) ==
    IF \E k \in 1..26 : UpperCase[k] = c
    THEN LowerCase[CHOOSE k \in 1..26 : UpperCase[k] = c]
    ELSE c
LowerStr(s) == [k \in 1..Len(s) |-> Lower(s[k])]

\* s[:-1] and s[-1] of a non-empty string
ButLast(s) == SubSeq(s, 1, Len(s) - 1)
Last(s) == s[Len(s)]

RECURSIVE LStrip(_)
LStrip(s) == IF Len(s) > 0 /\ IsSpace(s[1]) THEN LStrip(Tail(s)) ELSE s
RECURSIVE RStrip(_)
RStrip(s) == IF Len(s) > 0 /\ IsSpace(Last(s)) THEN RStrip(ButLast(s)) ELSE s

\* the digit groups of an int literal: digits, single underscores only between digits
RECURSIVE IsDigitRun(_)
IsDigitRun(s) ==
    IF Len(s) = 0 THEN FALSE
    ELSE IF ~IsDigit(s[1]) THEN FALSE
    ELSE IF Len(s) = 1 THEN TRUE
    ELSE IF s[2] = "_" THEN IsDigitRun(SubSeq(s, 3, Len(s)))
    ELSE IsDigitRun(Tail(s))

RECURSIVE DigitRunVal(_, _)
DigitRunVal(s, acc) ==
    IF Len(s) = 0 THEN acc
    ELSE IF s[1] = "_" THEN DigitRunVal(Tail(s), acc)
    ELSE DigitRunVal(Tail(s), 10 * acc + DigitVal(s[1]))

\* int(s): [ok, v]; ok = FALSE is ValueError
PyInt(s) ==
    LET t == RStrip(LStrip(s))
        signed == Len(t) > 0 /\ t[1] \in {"+", "-"}
        body == IF signed THEN Tail(t) ELSE t
    IN  IF IsDigitRun(body)
        THEN [ok |-> TRUE,
              v |-> IF signed /\ t[1] = "-" THEN 0 - DigitRunVal(body, 0)
                    ELSE DigitRunVal(body, 0)]
        ELSE [ok |-> FALSE, v |-> 0]

----------------------------------------------------------------------------
(* datetime and timedelta of the Python standard library. *)

\* date.max.toordinal(): 9999-12-31; date.min is ordinal 1
MaxOrdinal == 3652059
\* timedelta accepts |days| <= 999999999
MaxDeltaDays == 999999999

DateTime(d, m, aware) == [day |-> d, min |-> m, tz |-> aware]

\* a < b on two datetimes of the same awareness
DtLess(a, b) == a.day < b.day \/ (a.day = b.day /\ a.min < b.min)
\* comparing an aware datetime with a naive one raises TypeError
DtComparable(a, b) == a.tz = b.tz

\* timedelta(days=v), (hours=v), (minutes=v), (weeks=v), normalised to days and
\* minutes with 0 <= mins < 1440; ok = FALSE is OverflowError
TimeDelta(unit, v) ==
    CASE unit = "d" -> [ok |-> TRUE, days |-> v, mins |-> 0]
      [] unit = "h" -> [ok |-> TRUE, days |-> v \div 24, mins |-> (v % 24) * 60]
      [] unit = "m" -> [ok |-> TRUE, days |-> v \div 1440,
                        mins |-> v % 1440]
      [] unit = "w" -> IF v > MaxDeltaDays \div 7 \/ v < 0 - (MaxDeltaDays \div 7)
                       THEN [ok |-> FALSE, days |-> 0, mins |-> 0]
                       ELSE [ok |-> TRUE, days |-> 7 * v, mins |-> 0]

\* dt - td; ok = FALSE is OverflowError (date value out of range)
DtMinus(dt, td) ==
    LET m == dt.min - td.mins
        d == IF m < 0 THEN dt.day - td.days - 1 ELSE dt.day - td.days
    IN  IF d < 1 \/ d > MaxOrdinal
        THEN [ok |-> FALSE, v |-> dt]
        ELSE [ok |-> TRUE,
              v |-> DateTime(d, IF m < 0 THEN m + 1440 ELSE m, dt.tz)]

----------------------------------------------------------------------------
(* S3FilterUtils.parse_time_filter and parse_size_filter. *)

\* dateutil.parser.parse on the `since` strings the model draws:
\* "2026-10-01" is naive, "2026-10-01T00:00:00+00:00" is aware, "soon" does
\* not parse.  ok = FALSE is the parser's error.
SinceNaive == <<"2", "0", "2", "6", "-", "1", "0", "-", "0", "1">>
SinceAware == SinceNaive \o <<"T", "0", "0", ":", "0", "0", ":", "0", "0",
                               "+", "0", "0", ":", "0", "0">>
SinceBad == <<"s", "o", "o", "n">>
SinceSamples == {SinceNaive, SinceAware, SinceBad}
DtParse(s) ==
    CASE s = SinceNaive -> [ok |-> TRUE, v |-> DateTime(739890, 0, FALSE)]
      [] s = SinceAware -> [ok |-> TRUE, v |-> DateTime(739890, 0, TRUE)]
      [] OTHER -> [ok |-> FALSE, v |-> DateTime(1, 0, FALSE)]

TimeResult(exc, lo, hi) == [raised |-> exc, min_date |-> lo, max_date |-> hi]

\* OlderThan without the .lower() of line 323
OlderThanCaseSensitive(older_than, clock) ==
    LET unit == Last(older_than)
        value == PyInt(ButLast(older_than))
        deltas == [u \in {"d", "h", "m", "w"} |-> TimeDelta(u, value.v)]
    IN  IF ~value.ok THEN [raised |-> "ValueError", max_date |-> None]
        ELSE IF \E u \in DOMAIN deltas : ~deltas[u].ok
             THEN [raised |-> "OverflowError", max_date |-> None]
        ELSE IF unit \notin DOMAIN deltas
             THEN [raised |-> "ValueError", max_date |-> None]
        ELSE LET cut == DtMinus(clock, deltas[unit])
             IN  IF cut.ok THEN [raised |-> "none", max_date |-> Some(cut.v)]
                 ELSE [raised |-> "OverflowError", max_date |-> None]

\* lines 322-339: the older_than branch; the result is (raised, max_date)
OlderThan(older_than, clock) ==
    LET unit == Lower(Last(older_than))
        value == PyInt(ButLast(older_than))
        \* the dict literal builds all four timedeltas before the unit is looked up
        deltas == [u \in {"d", "h", "m", "w"} |-> TimeDelta(u, value.v)]
    IN  IF ~value.ok THEN [raised |-> "ValueError", max_date |-> None]
        ELSE IF \E u \in DOMAIN deltas : ~deltas[u].ok
             THEN [raised |-> "OverflowError", max_date |-> None]
        ELSE IF unit \notin DOMAIN deltas
             THEN [raised |-> "ValueError", max_date |-> None]
        ELSE LET cut == DtMinus(clock, deltas[unit])
             IN  IF cut.ok THEN [raised |-> "none", max_date |-> Some(cut.v)]
                 ELSE [raised |-> "OverflowError", max_date |-> None]

parse_time_filter(older_than, since, clock) ==
    LET older == IF TruthySeq(older_than) THEN OlderThan(older_than.v, clock)
                 ELSE [raised |-> "none", max_date |-> None]
    IN  IF older.raised # "none" THEN TimeResult(older.raised, None, None)
        ELSE IF TruthySeq(since)
             THEN LET d == DtParse(since.v)
                  IN  IF d.ok THEN TimeResult("none", Some(d.v), older.max_date)
                      ELSE TimeResult("ValueError", None, None)
        ELSE TimeResult("none", None, older.max_date)

\* the longest prefix of s made of digits, and what follows it
RECURSIVE DigitPrefixLen(_)
DigitPrefixLen(s) ==
    IF Len(s) > 0 /\ IsDigit(s[1]) THEN 1 + DigitPrefixLen(Tail(s)) ELSE 0

StartsWith(s, p) == Len(p) <= Len(s) /\ SubSeq(s, 1, Len(p)) = p
EndsWith(s, p) == Len(p) <= Len(s) /\ SubSeq(s, Len(s) - Len(p) + 1, Len(s)) = p
\* `p in s` on strings
Contains(s, p) ==
    \E k \in 0..(Len(s) - Len(p)) : SubSeq(s, k + 1, k + Len(p)) = p

\* humanfriendly.parse_size(s) with its default binary=False, on a whole
\* number followed by an optional unit: no unit or a unit starting with "b"
\* is bytes; KiB, MiB, GiB are powers of 1024; any other unit starting with
\* k, m, g is a power of 1000.  ok = FALSE is InvalidSize.
ParseSize(s) ==
    LET t == RStrip(LStrip(s))
        n == DigitPrefixLen(t)
        number == DigitRunVal(SubSeq(t, 1, n), 0)
        unit == LowerStr(LStrip(SubSeq(t, n + 1, Len(t))))
        bad == [ok |-> FALSE, v |-> 0]
        good(x) == [ok |-> TRUE, v |-> x]
    IN  IF n = 0 \/ \E k \in 1..Len(unit) : IsDigit(unit[k]) \/ unit[k] = "." THEN bad
        ELSE IF Len(unit) = 0 \/ unit[1] = "b" THEN good(number)
        ELSE IF unit \in {<<"k", "i", "b">>, <<"k", "i", "b", "i", "b", "y", "t", "e">>}
             THEN good(number * 1024)
        ELSE IF unit[1] = "k" THEN good(number * 1000)
        ELSE IF unit \in {<<"m", "i", "b">>, <<"m", "e", "b", "i", "b", "y", "t", "e">>}
             THEN good(number * 1024 * 1024)
        ELSE IF unit[1] = "m" THEN good(number * 1000 * 1000)
        ELSE IF unit \in {<<"g", "i", "b">>, <<"g", "i", "b", "i", "b", "y", "t", "e">>}
             THEN good(number * 1024 * 1024 * 1024)
        ELSE IF unit[1] = "g" THEN good(number * 1000 * 1000 * 1000)
        ELSE bad

SizeResult(exc, lo, hi) == [raised |-> exc, min_bytes |-> lo, max_bytes |-> hi]

parse_size_filter(min_size, max_size) ==
    LET lo == IF TruthySeq(min_size) THEN ParseSize(min_size.v) ELSE [ok |-> TRUE, v |-> 0]
        hi == IF TruthySeq(max_size) THEN ParseSize(max_size.v) ELSE [ok |-> TRUE, v |-> 0]
    IN  IF ~lo.ok \/ ~hi.ok THEN SizeResult("InvalidSize", None, None)
        ELSE SizeResult("none",
                        IF TruthySeq(min_size) THEN Some(lo.v) ELSE None,
                        IF TruthySeq(max_size) THEN Some(hi.v) ELSE None)

----------------------------------------------------------------------------
(* S3FilterUtils.filter_objects. *)

\* one listed object: the Key, LastModified and Size of ListObjectsV2
Object(k, lm, sz) == [Key |-> k, LastModified |-> lm, Size |-> sz]

\* the keyword arguments of filter_objects
Criteria(lo, hi, excl, incl, suf, pre, smin, smax) ==
    [min_date |-> lo, max_date |-> hi, exclude_patterns |-> excl,
     include_patterns |-> incl, suffix |-> suf, prefix |-> pre,
     min_size |-> smin, max_size |-> smax]
NoCriteria == Criteria(None, None, None, None, None, None, None, None)

\* lines 396-399: a time comparison of an aware and a naive datetime raises
TimeRaises(obj, f) ==
    \/ f.min_date.some /\ ~DtComparable(obj.LastModified, f.min_date.v)
    \/ /\ f.max_date.some
       /\ ~(f.min_date.some /\ DtLess(obj.LastModified, f.min_date.v))
       /\ ~DtComparable(obj.LastModified, f.max_date.v)

\* Skips with the suffix test chained to the exclude test by an elif
SkipsElif(obj, f) ==
    \/ f.min_date.some /\ DtLess(obj.LastModified, f.min_date.v)
    \/ f.max_date.some /\ DtLess(f.max_date.v, obj.LastModified)
    \/ TruthyInt(f.min_size) /\ obj.Size < f.min_size.v
    \/ TruthyInt(f.max_size) /\ obj.Size > f.max_size.v
    \/ /\ TruthySeq(f.exclude_patterns)
       /\ \E k \in 1..Len(f.exclude_patterns.v) :
              Contains(obj.Key, f.exclude_patterns.v[k])
    \/ /\ TruthySeq(f.include_patterns)
       /\ ~\E k \in 1..Len(f.include_patterns.v) :
              Contains(obj.Key, f.include_patterns.v[k])
    \/ /\ TruthySeq(f.suffix) /\ ~TruthySeq(f.exclude_patterns)
       /\ ~EndsWith(obj.Key, f.suffix.v)
    \/ TruthySeq(f.prefix) /\ ~StartsWith(obj.Key, f.prefix.v)

\* Skips with the four bounds exclusive: an object on a bound is skipped
SkipsExclusive(obj, f) ==
    \/ f.min_date.some /\ ~DtLess(f.min_date.v, obj.LastModified)
    \/ f.max_date.some /\ ~DtLess(obj.LastModified, f.max_date.v)
    \/ TruthyInt(f.min_size) /\ obj.Size <= f.min_size.v
    \/ TruthyInt(f.max_size) /\ obj.Size >= f.max_size.v
    \/ /\ TruthySeq(f.exclude_patterns)
       /\ \E k \in 1..Len(f.exclude_patterns.v) :
              Contains(obj.Key, f.exclude_patterns.v[k])
    \/ /\ TruthySeq(f.include_patterns)
       /\ ~\E k \in 1..Len(f.include_patterns.v) :
              Contains(obj.Key, f.include_patterns.v[k])
    \/ TruthySeq(f.suffix) /\ ~EndsWith(obj.Key, f.suffix.v)
    \/ TruthySeq(f.prefix) /\ ~StartsWith(obj.Key, f.prefix.v)

\* lines 396-420: the loop body reaches `continue` for obj
Skips(obj, f) ==
    \/ f.min_date.some /\ DtLess(obj.LastModified, f.min_date.v)
    \/ f.max_date.some /\ DtLess(f.max_date.v, obj.LastModified)
    \/ TruthyInt(f.min_size) /\ obj.Size < f.min_size.v
    \/ TruthyInt(f.max_size) /\ obj.Size > f.max_size.v
    \/ /\ TruthySeq(f.exclude_patterns)
       /\ \E k \in 1..Len(f.exclude_patterns.v) :
              Contains(obj.Key, f.exclude_patterns.v[k])
    \/ /\ TruthySeq(f.include_patterns)
       /\ ~\E k \in 1..Len(f.include_patterns.v) :
              Contains(obj.Key, f.include_patterns.v[k])
    \/ TruthySeq(f.suffix) /\ ~EndsWith(obj.Key, f.suffix.v)
    \/ TruthySeq(f.prefix) /\ ~StartsWith(obj.Key, f.prefix.v)

Yields(obj, f) == ~Skips(obj, f)

\* list(filter_objects(objects, **f)): the objects yielded, in order, or the
\* TypeError of the first comparison that raises
filter_objects(objects, f) ==
    IF \E k \in 1..Len(objects) : TimeRaises(objects[k], f)
    THEN [raised |-> "TypeError", objects |-> <<>>]
    ELSE [raised |-> "none", objects |-> SelectSeq(objects, LAMBDA o : Yields(o, f))]

----------------------------------------------------------------------------
(* Inputs. *)

\* the clock: 2026-11-03 00:10 UTC; datetime.now(tz) is aware
NowSample == DateTime(739923, 10, TRUE)

DefaultArgs ==
    [entry |-> "api", older_than |-> None, since |-> None,
     exclude_patterns |-> None, suffix |-> None, min_size |-> None,
     max_size |-> None, max_deletions |-> None, concurrency |-> 4,
     generate_report |-> None, confirm |-> FALSE, dry_run |-> TRUE,
     prefix |-> None]

\* every string of 1..n characters over the alphabet
StringsUpTo(alphabet, n) == UNION {[1..k -> alphabet] : k \in 1..n}

TimeAlphabet == {"0", "1", "7", "-", "+", "_", " ", ".", "d", "h", "m", "w", "D", "x"}
\* older_than strings whose number leaves the range of timedelta or datetime
LongTimeSamples ==
    {<<"3", "0", "0", "0", "w">>,
     <<"1", "0", "0", "0", "0", "0", "0", "d">>,
     <<"2", "0", "0", "0", "0", "0", "0", "0", "0", "d">>,
     <<"-", "3", "0", "0", "0", "0", "0", "0", "d">>,
     <<"9", "9", "9", "9", "9", "9", "9", "9", "9", "m">>}
OlderThanSamples == StringsUpTo(TimeAlphabet, MaxLen) \cup LongTimeSamples

Size1MB == <<"1", "M", "B">>
Size500KB == <<"5", "0", "0", "K", "B">>
Size2GB == <<"2", "G", "B">>
Size1MiB == <<"1", "M", "i", "B">>
Size0 == <<"0">>
SizeBad == <<"b", "i", "g">>
SizeSamples == {Size1MB, Size500KB, Size2GB, Size1MiB, Size0, SizeBad,
                <<"1", "0", "2", "4">>, <<"1", " ", "k">>}

KeyA == <<"l", "o", "g", "s", "/", "a", ".", "l", "o", "g">>
KeyB == <<"l", "o", "g", "s", "/", "b", ".", "t", "x", "t">>
KeyC == <<"d", "a", "t", "a", "/", "c", ".", "l", "o", "g">>
KeyD == <<"d", "a", "t", "a", "/", "d">>
PatLogs == <<"l", "o", "g", "s", "/">>
PatData == <<"d", "a", "t", "a">>
SufLog == <<".", "l", "o", "g">>

\* the objects of the bucket, in the order the store lists them (by key):
\* one day old, modified at 2026-10-01 00:00, ten days old, exactly seven
\* days old
Pool ==
    <<Object(KeyC, DateTime(739922, 10, TRUE), 2000000),
      Object(KeyD, DateTime(739890, 0, TRUE), 0),
      Object(KeyA, DateTime(739913, 10, TRUE), 500000),
      Object(KeyB, DateTime(739916, 10, TRUE), 1048576)>>

\* the sub-lists of a list that keep its order, of at most n objects
SubLists(list, n) ==
    {[k \in 1..Cardinality(S) |->
         list[CHOOSE j \in S : Cardinality({m \in S : m < j}) = k - 1]] :
       S \in {T \in SUBSET (1..Len(list)) : Cardinality(T) <= n}}

CriteriaSamples ==
    {Criteria(lo, hi, excl, incl, suf, pre, smin, smax) :
       lo \in {None, Some(DateTime(739890, 0, TRUE)), Some(DateTime(739890, 0, FALSE))},
       hi \in {None, Some(DateTime(739916, 10, TRUE))},
       excl \in {None, Some(<<PatLogs>>)},
       incl \in {None, Some(<<PatData, SufLog>>)},
       suf \in {None, Some(SufLog)},
       pre \in {None, Some(PatLogs)},
       smin \in {None, Some(1048576)},
       smax \in {None, Some(0), Some(1048576)}}

----------------------------------------------------------------------------
(* Calls of the pure functions. *)

Idle ==
    /\ now = NowSample
    /\ bucket = TRUE
    /\ returns = <<>>
    /\ store = <<>>
    /\ deleted = <<>>
    /\ calls = <<>>
    /\ raised = "none"
    /\ page = 0
    /\ results = None
    /\ keys = <<>>
    /\ max_workers = 0
    /\ i = 0
    /\ successful = 0
    /\ failed = 0
    /\ ret = None
    /\ exit_code = -1

InitParse ==
    /\ Idle
    /\ parsed = NoCriteria
    /\ all_objects = <<>>
    /\ filtered_objects = <<>>
    /\ applied = {}
    /\ \/ /\ pc = "parse_time"
          /\ \E o \in OlderThanSamples :
                args = [DefaultArgs EXCEPT !.older_than = Some(o)]
       \/ /\ pc = "parse_time"
          /\ \E o \in {None, Some(<<"7", "d">>), Some(<<"7", "x">>)} :
             \E d \in {None, Some(<<>>)} \cup {Some(x) : x \in SinceSamples} :
                args = [DefaultArgs EXCEPT !.older_than = o, !.since = d]
       \/ /\ pc = "parse_size"
          /\ \E lo, hi \in {None, Some(<<>>)} \cup {Some(x) : x \in SizeSamples} :
                args = [DefaultArgs EXCEPT !.min_size = lo, !.max_size = hi]

\* a call of S3FilterUtils.parse_time_filter(older_than, since)
ParseTimeCall ==
    /\ pc = "parse_time"
    /\ ret' = parse_time_filter(args.older_than, args.since, now)
    /\ raised' = ret'.raised
    /\ pc' = "done"
    /\ UNCHANGED <<bucket, returns, args, now, store, deleted, calls, parsed, page, all_objects,
                   filtered_objects, applied, results, keys, max_workers, i,
                   successful, failed, exit_code>>

\* a call of S3FilterUtils.parse_size_filter(min_size, max_size)
ParseSizeCall ==
    /\ pc = "parse_size"
    /\ ret' = parse_size_filter(args.min_size, args.max_size)
    /\ raised' = ret'.raised
    /\ pc' = "done"
    /\ UNCHANGED <<bucket, returns, args, now, store, deleted, calls, parsed, page, all_objects,
                   filtered_objects, applied, results, keys, max_workers, i,
                   successful, failed, exit_code>>

NextParse == ParseTimeCall \/ ParseSizeCall
SpecParse == InitParse /\ [][NextParse]_vars

\* the families of criteria of filter_objects, and those a call sets
Families == {"time", "size", "exclude", "include", "suffix", "prefix"}
SetFamilies(f) ==
    {x \in Families :
       \/ x = "time" /\ (f.min_date.some \/ f.max_date.some)
       \/ x = "size" /\ (f.min_size.some \/ f.max_size.some)
       \/ x = "exclude" /\ f.exclude_patterns.some
       \/ x = "include" /\ f.include_patterns.some
       \/ x = "suffix" /\ f.suffix.some
       \/ x = "prefix" /\ f.prefix.some}
\* the criteria of f that belong to the families fams, the others left unset
Restrict(f, fams) ==
    Criteria(IF "time" \in fams THEN f.min_date ELSE None,
             IF "time" \in fams THEN f.max_date ELSE None,
             IF "exclude" \in fams THEN f.exclude_patterns ELSE None,
             IF "include" \in fams THEN f.include_patterns ELSE None,
             IF "suffix" \in fams THEN f.suffix ELSE None,
             IF "prefix" \in fams THEN f.prefix ELSE None,
             IF "size" \in fams THEN f.min_size ELSE None,
             IF "size" \in fams THEN f.max_size ELSE None)

InitFilter ==
    /\ Idle
    /\ pc = "filter"
    /\ args = DefaultArgs
    /\ parsed \in CriteriaSamples
    /\ all_objects \in SubLists(Pool, MaxObjs)
    /\ filtered_objects = all_objects
    /\ applied = {}

\* a call of S3FilterUtils.filter_objects on the objects left by the calls
\* before it, with the criteria of one family that was not applied yet, or
\* with all of them at once
FilterCall ==
    /\ pc = "filter"
    /\ LET rest == SetFamilies(parsed) \ applied
       IN  \E fams \in {{x} : x \in rest} \cup {rest} :
             LET out == filter_objects(filtered_objects, Restrict(parsed, fams))
             IN  /\ raised' = out.raised
                 /\ filtered_objects' = out.objects
                 /\ applied' = applied \cup fams
                 /\ pc' = IF out.raised # "none" THEN "raised"
                          ELSE IF fams = rest THEN "done" ELSE "filter"
    /\ UNCHANGED <<bucket, returns, args, now, store, deleted, calls, parsed, page, all_objects, results,
                   keys, max_workers, i, successful, failed, ret, exit_code>>

NextFilter == FilterCall
SpecFilter == InitFilter /\ [][NextFilter]_vars

----------------------------------------------------------------------------
(* S3Utils: the calls to the store. *)

\* line 207
batch_size == 1000

\* one call to the store or the filesystem: its name, the keys it carries
\* and whether it succeeded; a delete_objects call also records how the
\* store answered it
Call(api, ks, ok) == [api |-> api, keys |-> ks, ok |-> ok]

KeysOf(objects) == [k \in 1..Len(objects) |-> objects[k].Key]

\* lines 122-127: list_objects() passes the instance prefix, and the store
\* lists the objects whose key starts with it
Listing ==
    IF TruthySeq(args.prefix)
    THEN SelectSeq(store, LAMBDA o : StartsWith(o.Key, args.prefix.v))
    ELSE store

\* the ways the store answers one DeleteObjects call: every key deleted,
\* every key in Errors, the first key in Errors, every other key in Errors,
\* or a transport failure before or after the store acted on the request
Answers == {"deleted", "errors", "first", "alternate", "raise", "raise_late"}
\* the keys of a chunk the store deletes: those the answer reports in
\* Deleted, or all of them when the response is lost after the store acted
DeletedBy(batch_keys, answer) ==
    CASE answer \in {"deleted", "raise_late"} -> batch_keys
      [] answer = "first" -> Tail(batch_keys)
      [] answer = "alternate" -> [k \in 1..(Len(batch_keys) \div 2) |-> batch_keys[2 * k]]
      [] OTHER -> <<>>
\* the response of the store: its Deleted and Errors lists partition the chunk
Response(batch_keys, answer) ==
    [Deleted |-> DeletedBy(batch_keys, answer),
     Errors |-> CASE answer = "errors" -> batch_keys
                  [] answer = "first" -> <<Head(batch_keys)>>
                  [] answer = "alternate" ->
                       [k \in 1..((Len(batch_keys) + 1) \div 2) |-> batch_keys[2 * k - 1]]
                  [] OTHER -> <<>>]

\* lines 200-207: delete_objects_batch returns (0, 0) for an empty list,
\* else starts the loop over the chunks
BatchEnter ==
    /\ pc = "batch"
    /\ IF Len(keys) = 0
       THEN /\ ret' = <<0, 0>>
            /\ pc' = "batch_done"
            /\ UNCHANGED <<successful, failed, i>>
       ELSE /\ successful' = 0
            /\ failed' = 0
            /\ i' = 0
            /\ pc' = "chunk"
            /\ UNCHANGED ret
    /\ UNCHANGED <<bucket, returns, args, now, store, deleted, calls, raised, parsed, page, all_objects,
                   filtered_objects, applied, results, keys, max_workers,
                   exit_code>>

\* BatchKeys with a slice one key too long
BatchKeysOffByOne(ks, at) ==
    SubSeq(ks, at + 1,
           IF at + batch_size + 1 < Len(ks) THEN at + batch_size + 1 ELSE Len(ks))

\* BatchKeys with the first key of every chunk left out
BatchKeysSkipFirst(ks, at) ==
    SubSeq(ks, at + 2, IF at + batch_size < Len(ks) THEN at + batch_size ELSE Len(ks))

\* line 210: batch_keys = keys[i:i + batch_size]
BatchKeys(ks, at) ==
    SubSeq(ks, at + 1, IF at + batch_size < Len(ks) THEN at + batch_size ELSE Len(ks))

\* CountSuccessful with the update of a worker overwriting the count
CountSuccessfulLostUpdate(count, response) ==
    IF max_workers > 1 THEN Len(response.Deleted) ELSE count + Len(response.Deleted)
\* lines 219-220: the counts after a response
CountSuccessful(count, response) == count + Len(response.Deleted)
CountFailed(count, response) == count + Len(response.Errors)
\* CountChunkFailed counting the failed call as one failure
CountChunkFailedOnce(count, batch_keys) == count + 1
\* lines 226-228: the count after a call that raised
CountChunkFailed(count, batch_keys) == count + Len(batch_keys)

\* AfterChunk with the loop left at the first chunk that raises
AfterChunkBreak(threw, more) == IF more /\ ~threw THEN "chunk" ELSE "batch_done"

\* lines 209 and 226-230: the exception of a chunk is caught and the loop
\* goes on with the next chunk; after the last one the function returns
AfterChunk(threw, more) == IF more THEN "chunk" ELSE "batch_done"

\* lines 209-217: the loop takes the next chunk and calls delete_objects
\* with it; the call blocks until the store answers or the transport fails
DeleteSend ==
    /\ pc = "chunk"
    /\ i < Len(keys)
    /\ pc' = "await"
    /\ UNCHANGED <<bucket, returns, args, now, store, deleted, calls, raised, parsed, page,
                   all_objects, filtered_objects, applied, results, keys,
                   max_workers, i, successful, failed, ret, exit_code>>

\* the delete_objects calls that were made and have not returned yet: the
\* one the loop is blocked in
InFlight == IF pc = "await" THEN 1 ELSE 0

\* lines 214-230: the call of the chunk returns or raises, and the counts
\* are updated; after the last chunk the counts are returned
DeleteChunk ==
    /\ pc = "await"
    /\ i < Len(keys)
    /\ \E answer \in Answers :
         LET batch_keys == BatchKeys(keys, i)
             threw == answer \in {"raise", "raise_late"}
             response == Response(batch_keys, answer)
             ok == IF threw THEN successful ELSE CountSuccessful(successful, response)
             ko == IF threw THEN CountChunkFailed(failed, batch_keys)
                   ELSE CountFailed(failed, response)
             next == AfterChunk(threw, i + batch_size < Len(keys))
         IN  /\ calls' = Append(calls, Call("delete_objects", batch_keys, ~threw)
                                           @@ [answer |-> answer])
             /\ deleted' = deleted \o DeletedBy(batch_keys, answer)
             /\ successful' = ok
             /\ failed' = ko
             /\ i' = i + batch_size
             /\ pc' = next
             /\ IF next = "batch_done" THEN ret' = <<ok, ko>> ELSE UNCHANGED ret
    /\ UNCHANGED <<bucket, returns, args, now, store, raised, parsed, page, all_objects,
                   filtered_objects, applied, results, keys, max_workers,
                   exit_code>>

\* the key lists of the calls of delete_objects_batch
NumberedKey(k) ==
    <<"k", "/">> \o [d \in 1..4 |-> Digits[((k \div (CASE d = 1 -> 1000 [] d = 2 -> 100
                                                        [] d = 3 -> 10 [] OTHER -> 1))
                                             % 10) + 1]]
KeyCounts ==
    {c * batch_size + r : c \in 0..(MaxChunks - 1),
                          r \in {0, 1, batch_size \div 2, batch_size - 1}}
      \cup {MaxChunks * batch_size}

\* a caller of S3Utils.delete_objects_batch(keys, max_workers)
InitBatch ==
    /\ pc = "batch"
    /\ args = [DefaultArgs EXCEPT !.entry = "batch"]
    /\ now = NowSample
    /\ bucket = TRUE
    /\ returns = <<>>
    /\ \E n \in KeyCounts :
         /\ keys = [k \in 1..n |-> NumberedKey(k)]
         /\ store = [k \in 1..n |-> Object(NumberedKey(k), DateTime(739913, 10, TRUE), k)]
    /\ max_workers \in {1, 4}
    /\ deleted = <<>>
    /\ calls = <<>>
    /\ raised = "none"
    /\ parsed = NoCriteria
    /\ page = 0
    /\ all_objects = <<>>
    /\ filtered_objects = <<>>
    /\ applied = {}
    /\ results = None
    /\ i = 0
    /\ successful = 0
    /\ failed = 0
    /\ ret = None
    /\ exit_code = -1


----------------------------------------------------------------------------
(* S3Utils: upload_object, delete_object and ensure_bucket_exists, called *)
(* one after the other by a caller such as populate_minio.py.            *)

\* the ways the store answers one request: it acts and answers, it rejects
\* the request or never gets it, or it acts and its answer is lost
StoreAnswers == {"ok", "raise", "raise_late"}

\* the listing after object o was put, and after key k was removed
Put(objs, o) ==
    SelectSeq(Pool, LAMBDA x : x.Key = o.Key \/ \E k \in 1..Len(objs) : objs[k].Key = x.Key)
Remove(objs, k) == SelectSeq(objs, LAMBDA x : x.Key # k)

\* the objects that the caller uploads and deletes
OpObjects == {Pool[2], Pool[3]}

\* OpOutcome with the exception of the store call left to the caller
OpOutcomeRaises(threw) ==
    [raised |-> IF threw THEN "ClientError" ELSE "none", value |-> ~threw]

\* lines 163-169 and 182-187: True after the store call, and False from
\* `except Exception` when it raised
OpOutcome(threw) == [raised |-> "none", value |-> ~threw]

\* S3Utils.upload_object(key, content)
UploadObject ==
    /\ pc = "ops"
    /\ Len(returns) < MaxOps
    /\ \E o \in OpObjects, answer \in StoreAnswers :
         LET threw == ~bucket \/ answer # "ok"
             out == OpOutcome(threw)
         IN  /\ calls' = Append(calls, Call("put_object", <<o.Key>>, ~threw))
             /\ store' = IF bucket /\ answer # "raise" THEN Put(store, o) ELSE store
             /\ raised' = out.raised
             /\ pc' = IF out.raised = "none" THEN "ops" ELSE "raised"
             /\ returns' = IF out.raised = "none"
                           THEN Append(returns, [op |-> "upload_object",
                                                 value |-> out.value,
                                                 call |-> Len(calls')])
                           ELSE returns
    /\ UNCHANGED <<bucket, args, now, deleted, parsed, page, all_objects,
                   filtered_objects, applied, results, keys, max_workers, i,
                   successful, failed, ret, exit_code>>

\* S3Utils.delete_object(key)
DeleteObject ==
    /\ pc = "ops"
    /\ Len(returns) < MaxOps
    /\ \E o \in OpObjects, answer \in StoreAnswers :
         LET threw == ~bucket \/ answer # "ok"
             out == OpOutcome(threw)
         IN  /\ calls' = Append(calls, Call("delete_object", <<o.Key>>, ~threw))
             /\ store' = IF bucket /\ answer # "raise" THEN Remove(store, o.Key)
                         ELSE store
             /\ raised' = out.raised
             /\ pc' = IF out.raised = "none" THEN "ops" ELSE "raised"
             /\ returns' = IF out.raised = "none"
                           THEN Append(returns, [op |-> "delete_object",
                                                 value |-> out.value,
                                                 call |-> Len(calls')])
                           ELSE returns
    /\ UNCHANGED <<bucket, args, now, deleted, parsed, page, all_objects,
                   filtered_objects, applied, results, keys, max_workers, i,
                   successful, failed, ret, exit_code>>

\* CreateNeeded with create_bucket called whatever head_bucket answered
CreateAlways(head_ok) == TRUE

\* lines 96-102: create_bucket is called in the except clause of head_bucket
CreateNeeded(head_ok) == ~head_ok

\* S3Utils.ensure_bucket_exists(): head_bucket succeeds when the bucket
\* exists and the request gets through; create_bucket on an existing
\* bucket is answered as the store pleases
EnsureBucket ==
    /\ pc = "ops"
    /\ Len(returns) < MaxOps
    /\ \E fault \in BOOLEAN, answer \in StoreAnswers :
         LET head_ok == bucket /\ ~fault
             create == CreateNeeded(head_ok)
             head == <<Call("head_bucket", <<>>, head_ok)>>
         IN  /\ calls' = IF create
                         THEN calls \o head \o <<Call("create_bucket", <<>>, answer = "ok")>>
                         ELSE calls \o head
             /\ bucket' = (bucket \/ (create /\ answer # "raise"))
             /\ returns' = Append(returns,
                               [op |-> "ensure_bucket_exists",
                                value |-> IF create THEN answer = "ok" ELSE TRUE,
                                head |-> head_ok,
                                create |-> IF create THEN answer ELSE "none",
                                before |-> bucket,
                                after |-> bucket'])
    /\ UNCHANGED <<args, now, store, deleted, raised, parsed, page, all_objects,
                   filtered_objects, applied, results, keys, max_workers, i,
                   successful, failed, ret, exit_code, pc>>

\* a caller of S3Utils, with the bucket missing or holding up to two objects
InitOps ==
    /\ pc = "ops"
    /\ args = [DefaultArgs EXCEPT !.entry = "ops"]
    /\ now = NowSample
    /\ bucket \in BOOLEAN
    /\ store \in IF bucket THEN {SubSeq(Pool, 1, n) : n \in 0..2} ELSE {<<>>}
    /\ returns = <<>>
    /\ deleted = <<>>
    /\ calls = <<>>
    /\ raised = "none"
    /\ parsed = NoCriteria
    /\ page = 0
    /\ all_objects = <<>>
    /\ filtered_objects = <<>>
    /\ applied = {}
    /\ results = None
    /\ keys = <<>>
    /\ max_workers = 0
    /\ i = 0
    /\ successful = 0
    /\ failed = 0
    /\ ret = None
    /\ exit_code = -1

NextOps == UploadObject \/ DeleteObject \/ EnsureBucket
SpecOps == InitOps /\ [][NextOps]_vars

----------------------------------------------------------------------------
(* S3Cleaner.clean_objects and main. *)

RECURSIVE SumSizes(_)
SumSizes(objects) ==
    IF Len(objects) = 0 THEN 0 ELSE Head(objects).Size + SumSizes(Tail(objects))

\* Fail with main ending normally after it printed the error
FailExitZero(exc) ==
    /\ raised' = exc
    /\ IF args.entry = "cli"
       THEN pc' = "exited" /\ exit_code' = 0
       ELSE pc' = "raised" /\ UNCHANGED exit_code

\* an exception leaves clean_objects or the constructor: main catches it,
\* prints it and exits with status 1 (lines 267-269); a caller of the class
\* sees it raised
Fail(exc) ==
    /\ raised' = exc
    /\ IF args.entry = "cli"
       THEN pc' = "exited" /\ exit_code' = 1
       ELSE pc' = "raised" /\ UNCHANGED exit_code

\* main, lines 213-216: at least one filter must be given
Validate ==
    /\ pc = "main"
    /\ IF /\ ~TruthySeq(args.older_than) /\ ~TruthySeq(args.since)
          /\ ~TruthySeq(args.min_size) /\ ~TruthySeq(args.max_size)
          /\ ~TruthySeq(args.suffix)
       THEN pc' = "exited" /\ exit_code' = 1
       ELSE pc' = "construct" /\ UNCHANGED exit_code
    /\ UNCHANGED <<bucket, returns, args, now, store, deleted, calls, raised, parsed, page,
                   all_objects, filtered_objects, applied, results, keys,
                   max_workers, i, successful, failed, ret>>

\* S3Cleaner.__init__ -> S3Utils.__init__ -> _verify_connection (s3_utils.py
\* lines 84-92): list_buckets is called, and its failure is raised
Construct ==
    /\ pc = "construct"
    /\ \E ok \in BOOLEAN :
         /\ calls' = Append(calls, Call("list_buckets", <<>>, ok))
         /\ IF ok
            THEN pc' = "clean" /\ UNCHANGED <<raised, exit_code>>
            ELSE Fail("ConnectionError")
    /\ UNCHANGED <<bucket, returns, args, now, store, deleted, parsed, page, all_objects,
                   filtered_objects, applied, results, keys, max_workers, i,
                   successful, failed, ret>>

\* clean_objects, lines 59-61: the filters are parsed; lines 69-77: the
\* keyword arguments of filter_objects
ParseFilters ==
    /\ pc = "clean"
    /\ LET t == parse_time_filter(args.older_than, args.since, now)
           z == parse_size_filter(args.min_size, args.max_size)
       IN  IF t.raised # "none" THEN Fail(t.raised) /\ UNCHANGED parsed
           ELSE IF z.raised # "none" THEN Fail(z.raised) /\ UNCHANGED parsed
           ELSE /\ parsed' = Criteria(t.min_date, t.max_date, args.exclude_patterns,
                                      None, args.suffix, None, z.min_bytes, z.max_bytes)
                /\ pc' = "list"
                /\ UNCHANGED <<raised, exit_code>>
    /\ UNCHANGED <<bucket, returns, args, now, store, deleted, calls, page, all_objects,
                   filtered_objects, applied, results, keys, max_workers, i,
                   successful, failed, ret>>

\* ListOutcome with the except clause ending the listing instead of raising
ListOutcomeSwallowed(ok, more) ==
    IF ~ok THEN "end" ELSE IF more THEN "next" ELSE "end"

\* ListOutcome with the listing ended after its first page
ListOutcomeOnePage(ok, more) == IF ~ok THEN "raise" ELSE "end"

\* list_objects, lines 132-138: the generator goes on to the next page while
\* the paginator has one, ends after the last, and logs and re-raises the
\* exception of a page that fails
ListOutcome(ok, more) ==
    IF ~ok THEN "raise" ELSE IF more THEN "next" ELSE "end"

\* clean_objects, line 65, and list_objects, lines 120-138: one page of the
\* listing is fetched; a page that fails carries no objects and raises out
\* of clean_objects
ListPage ==
    /\ pc = "list"
    /\ \E ok \in BOOLEAN :
         LET upto == IF (page + 1) * PageSize < Len(Listing)
                     THEN (page + 1) * PageSize ELSE Len(Listing)
             got == IF ok THEN SubSeq(Listing, page * PageSize + 1, upto) ELSE <<>>
             outcome == ListOutcome(ok, upto < Len(Listing))
         IN  /\ calls' = Append(calls, Call("list_objects_v2", <<>>, ok))
             /\ IF outcome = "raise"
                THEN Fail("ClientError") /\ UNCHANGED <<all_objects, page>>
                ELSE /\ all_objects' = all_objects \o got
                     /\ page' = page + 1
                     /\ pc' = IF outcome = "next" THEN "list" ELSE "filter"
                     /\ UNCHANGED <<raised, exit_code>>
    /\ UNCHANGED <<bucket, returns, args, now, store, deleted, parsed, filtered_objects,
                   applied, results, keys, max_workers, i, successful, failed,
                   ret>>

\* Truncate keeping the last max_deletions objects
TruncateLast(objects, max_deletions) ==
    IF TruthyInt(max_deletions) /\ Len(objects) > max_deletions.v
    THEN SubSeq(objects, Len(objects) - max_deletions.v + 1, Len(objects))
    ELSE objects

\* lines 81-84: the max_deletions limit
Truncate(objects, max_deletions) ==
    IF TruthyInt(max_deletions) /\ Len(objects) > max_deletions.v
    THEN SubSeq(objects, 1, max_deletions.v)
    ELSE objects

\* clean_objects, lines 68-84: the filters and the limit are applied
FilterPlan ==
    /\ pc = "filter"
    /\ LET out == filter_objects(all_objects, parsed)
       IN  IF out.raised # "none"
           THEN Fail(out.raised) /\ UNCHANGED filtered_objects
           ELSE /\ filtered_objects' = Truncate(out.objects, args.max_deletions)
                /\ pc' = "report"
                /\ UNCHANGED <<raised, exit_code>>
    /\ UNCHANGED <<bucket, returns, args, now, store, deleted, calls, parsed, page, all_objects,
                   applied, results, keys, max_workers, i, successful, failed,
                   ret>>

\* AfterReport with a failed export ending the run
AfterReportAbort(success) == IF success THEN "summary" ELSE "raised"

\* lines 88-92: whatever export_to_csv returned, a message is logged and
\* clean_objects goes on to the summary
AfterReport(success) == "summary"

\* ReportRows with the matched objects, before the limit was applied
ReportRowsMatched(objects) == KeysOf(filter_objects(all_objects, parsed).objects)

\* line 88 and export_to_csv, lines 282-291: one row for every object of
\* filtered_objects, in order
ReportRows(objects) == KeysOf(objects)

\* clean_objects, lines 86-92, and export_to_csv: the report is written if
\* one was asked for; export_to_csv returns False when the write fails
Report ==
    /\ pc = "report"
    /\ IF TruthySeq(args.generate_report)
       THEN \E success \in BOOLEAN :
              /\ calls' = Append(calls, Call("export_to_csv",
                                             ReportRows(filtered_objects), success))
              /\ pc' = AfterReport(success)
       ELSE /\ UNCHANGED calls
            /\ pc' = "summary"
    /\ UNCHANGED <<bucket, returns, args, now, store, deleted, raised, parsed, page, all_objects,
                   filtered_objects, applied, results, keys, max_workers, i,
                   successful, failed, ret, exit_code>>

\* lines 95-104
Summary(all, matched, dry) ==
    [total_objects |-> Len(all), matched_objects |-> Len(matched),
     total_size_bytes |-> SumSizes(matched), deleted_objects |-> 0,
     failed_deletions |-> 0, dry_run |-> dry]

\* DryRun with the confirmation ignored
DryRunIgnoresConfirm(dry_run, confirm) == dry_run
\* DryRun with the confirmation read the wrong way round
DryRunSwapped(dry_run, confirm) == dry_run /\ confirm
\* lines 103 and 115: self.dry_run and not confirm
DryRun(dry_run, confirm) == dry_run /\ ~confirm

\* NothingToDelete with the early return never taken
NothingToDeleteNever(objects) == FALSE

\* line 106: if not filtered_objects
NothingToDelete(objects) == Len(objects) = 0

\* clean_objects, lines 94-124: the summary is built; the call returns it
\* when nothing matched or in a dry run, else it calls delete_objects_batch
Summarise ==
    /\ pc = "summary"
    /\ LET dry == DryRun(args.dry_run, args.confirm)
           summary == Summary(all_objects, filtered_objects, dry)
       IN  IF NothingToDelete(filtered_objects) \/ dry
           THEN /\ results' = summary
                /\ ret' = summary
                /\ pc' = "returned"
                /\ UNCHANGED <<keys, max_workers>>
           ELSE /\ results' = [summary EXCEPT !.dry_run = FALSE]
                /\ keys' = KeysOf(filtered_objects)
                /\ max_workers' = args.concurrency
                /\ pc' = "batch"
                /\ UNCHANGED ret
    /\ UNCHANGED <<bucket, returns, args, now, store, deleted, calls, raised, parsed, page,
                   all_objects, filtered_objects, applied, i, successful,
                   failed, exit_code>>

\* clean_objects, lines 124-131: the counts of delete_objects_batch go into
\* the summary, which is returned
CleanFinish ==
    /\ pc = "batch_done"
    /\ args.entry # "batch"
    /\ results' = [results EXCEPT !.deleted_objects = ret[1],
                                  !.failed_deletions = ret[2]]
    /\ ret' = results'
    /\ pc' = "returned"
    /\ UNCHANGED <<bucket, returns, args, now, store, deleted, calls, raised, parsed, page,
                   all_objects, filtered_objects, applied, keys, max_workers,
                   i, successful, failed, exit_code>>

\* main, lines 246-262: the summary is printed and the process ends normally
MainSummary ==
    /\ pc = "returned"
    /\ args.entry = "cli"
    /\ pc' = "exited"
    /\ exit_code' = 0
    /\ UNCHANGED <<bucket, returns, args, now, store, deleted, calls, raised, parsed, page,
                   all_objects, filtered_objects, applied, results, keys,
                   max_workers, i, successful, failed, ret>>

ReportPath == <<"r", ".", "c", "s", "v">>

\* the invocations: every combination of filter flags from the command
\* line, and every combination of the other parameters with at most one
\* filter, from the command line (dry_run is always True there, line 185)
\* or from a caller of the class
FilterFlags ==
    {[DefaultArgs EXCEPT !.entry = "cli", !.older_than = o, !.since = d,
                         !.exclude_patterns = x, !.suffix = u, !.min_size = lo,
                         !.max_size = hi, !.confirm = c] :
       o \in {None, Some(<<"7", "d">>), Some(<<"7", "x">>)},
       d \in {None, Some(SinceAware), Some(SinceNaive), Some(SinceBad)},
       x \in {None, Some(<<PatLogs>>)},
       u \in {None, Some(SufLog)},
       lo \in {None, Some(Size1MB), Some(SizeBad)},
       hi \in {None, Some(Size0)},
       c \in BOOLEAN}
OneFilter ==
    {DefaultArgs,
     [DefaultArgs EXCEPT !.older_than = Some(<<"7", "d">>)],
     [DefaultArgs EXCEPT !.exclude_patterns = Some(<<PatLogs>>)],
     [DefaultArgs EXCEPT !.suffix = Some(SufLog)],
     [DefaultArgs EXCEPT !.min_size = Some(Size1MB)]}
OtherFlags ==
    {[a EXCEPT !.entry = e[1], !.dry_run = e[2], !.max_deletions = m,
               !.concurrency = w, !.generate_report = r, !.confirm = c,
               !.prefix = p] :
       a \in OneFilter,
       e \in {<<"cli", TRUE>>, <<"api", TRUE>>, <<"api", FALSE>>},
       m \in {None, Some(0), Some(1), Some(2)},
       w \in {1, 4},
       r \in {None, Some(ReportPath)},
       c \in BOOLEAN,
       p \in {None, Some(PatLogs)}}

InitClean ==
    /\ args \in FilterFlags \cup OtherFlags
    /\ pc = IF args.entry = "cli" THEN "main" ELSE "construct"
    /\ now = NowSample
    /\ bucket = TRUE
    /\ returns = <<>>
    /\ store \in SubLists(Pool, MaxObjs)
    /\ deleted = <<>>
    /\ calls = <<>>
    /\ raised = "none"
    /\ parsed = NoCriteria
    /\ page = 0
    /\ all_objects = <<>>
    /\ filtered_objects = <<>>
    /\ applied = {}
    /\ results = None
    /\ keys = <<>>
    /\ max_workers = 0
    /\ i = 0
    /\ successful = 0
    /\ failed = 0
    /\ ret = None
    /\ exit_code = -1

Init == InitClean \/ InitBatch

Next ==
    \/ Validate
    \/ Construct
    \/ ParseFilters
    \/ ListPage
    \/ FilterPlan
    \/ Report
    \/ Summarise
    \/ BatchEnter
    \/ DeleteSend
    \/ DeleteChunk
    \/ CleanFinish
    \/ MainSummary

Spec == Init /\ [][Next]_vars

----------------------------------------------------------------------------
(* Properties of clean_objects and delete_objects_batch, under Spec. *)

\* the DeleteObjects and DeleteObject calls made so far
DeleteCalls == SelectSeq(calls, LAMBDA c : c.api \in {"delete_objects", "delete_object"})

RECURSIVE Flatten(_)
Flatten(cs) == IF Len(cs) = 0 THEN <<>> ELSE Head(cs).keys \o Flatten(Tail(cs))

\* the eight rejection conditions, each one applying when its field is set
Rejected(obj, f) ==
    \/ f.min_date.some /\ DtLess(obj.LastModified, f.min_date.v)
    \/ f.max_date.some /\ DtLess(f.max_date.v, obj.LastModified)
    \/ f.min_size.some /\ obj.Size < f.min_size.v
    \/ f.max_size.some /\ obj.Size > f.max_size.v
    \/ /\ f.exclude_patterns.some
       /\ \E k \in 1..Len(f.exclude_patterns.v) :
              Contains(obj.Key, f.exclude_patterns.v[k])
    \/ /\ f.include_patterns.some
       /\ ~\E k \in 1..Len(f.include_patterns.v) :
              Contains(obj.Key, f.include_patterns.v[k])
    \/ f.suffix.some /\ ~EndsWith(obj.Key, f.suffix.v)
    \/ f.prefix.some /\ ~StartsWith(obj.Key, f.prefix.v)

\* the objects of the listing that pass the filters, before any limit
Matched == filter_objects(all_objects, parsed).objects

InClean == args.entry \in {"cli", "api"}

\* C1: in dry-run mode (dry_run set and confirm not given) clean_objects
\* never calls the delete API of the store, whatever the listing, the
\* filters and max_deletions are
C1_DryRunNeverDeletes ==
    (InClean /\ args.dry_run /\ ~args.confirm)
        => (Len(DeleteCalls) = 0 /\ deleted = <<>>
            /\ pc \notin {"batch", "chunk", "await"})

\* a dry run that matched objects, capped by max_deletions, has returned
C1_Witness ==
    /\ InClean /\ args.dry_run /\ ~args.confirm
    /\ pc = "returned"
    /\ args.max_deletions = Some(1)
    /\ results # None /\ results.dry_run /\ results.matched_objects = 1

\* C2: the keys clean_objects submits for deletion are at most
\* max_deletions whenever the caller sets it (0 included), and are exactly
\* the matched objects when it is unset or not exceeded
C2_CapRespected ==
    (InClean /\ pc \in {"batch", "chunk", "await", "batch_done"})
        => /\ args.max_deletions.some => Len(keys) <= args.max_deletions.v
           /\ (~args.max_deletions.some \/ Len(Matched) <= args.max_deletions.v)
                 => keys = KeysOf(Matched)

\* C3: when the limit truncates the plan, the summary still reports the
\* number and the total size of all matched objects, before truncation
C3_SummaryBeforeTruncation ==
    (InClean /\ results # None)
        => /\ results.matched_objects = Len(Matched)
           /\ results.total_size_bytes = SumSizes(Matched)

\* C4: delete_objects_batch returns counts with successful + failed =
\* len(keys), whatever the per-key errors, the chunk exceptions and
\* max_workers are; so the summary of a run that deletes has
\* deleted_objects + failed_deletions = the number of keys attempted
C4_CountsAddUp ==
    /\ pc = "batch_done" => ret[1] + ret[2] = Len(keys)
    /\ (InClean /\ pc \in {"returned", "exited"} /\ results # None /\ ~results.dry_run)
         => results.deleted_objects + results.failed_deletions = Len(keys)

\* a call with several chunks returned after one chunk raised and another
\* came back with keys in Deleted and keys in Errors
C4_Witness ==
    /\ pc = "batch_done"
    /\ max_workers = 4
    /\ \E j, k \in 1..Len(calls) :
         /\ ~calls[j].ok /\ calls[k].ok
         /\ ret[1] > 0
         /\ ret[2] > Len(calls[j].keys)

\* C5: delete_objects_batch on n keys makes exactly ceil(n / 1000)
\* DeleteObjects calls, each of at most 1000 keys and all but the last of
\* exactly 1000
C5_ChunkCalls ==
    pc = "batch_done"
        => /\ Len(DeleteCalls) = (Len(keys) + 999) \div 1000
           /\ \A k \in 1..Len(DeleteCalls) :
                /\ Len(DeleteCalls[k].keys) <= 1000
                /\ k < Len(DeleteCalls) => Len(DeleteCalls[k].keys) = 1000

\* 1500 keys went out in two calls of 1000 and 500 keys
C5_Witness ==
    /\ pc = "batch_done"
    /\ Len(keys) = 1500
    /\ Len(DeleteCalls) = 2
    /\ Len(DeleteCalls[1].keys) = 1000
    /\ Len(DeleteCalls[2].keys) = 500

RECURSIVE ThrownKeys(_)
ThrownKeys(cs) ==
    IF Len(cs) = 0 THEN 0
    ELSE (IF Head(cs).ok THEN 0 ELSE Len(Head(cs).keys)) + ThrownKeys(Tail(cs))

\* C6: when the DeleteObjects call of a chunk raises, every key of the
\* chunk is counted as failed, no exception leaves delete_objects_batch,
\* and every later chunk is still sent to the store
C6_ChunkFailureIsLocal ==
    /\ pc \in {"chunk", "await", "batch_done"}
         => /\ raised = "none"
            /\ failed >= ThrownKeys(DeleteCalls)
            /\ successful <= Len(Flatten(DeleteCalls)) - ThrownKeys(DeleteCalls)
    /\ (pc = "batch_done" /\ Len(keys) > 0) => Flatten(DeleteCalls) = keys

\* the first chunk raised and a later chunk was sent and deleted keys
C6_Witness ==
    /\ pc = "batch_done"
    /\ Len(DeleteCalls) >= 2
    /\ ~DeleteCalls[1].ok
    /\ DeleteCalls[Len(DeleteCalls)].ok
    /\ successful > 0
    /\ failed = Len(DeleteCalls[1].keys)

\* C10: a malformed time or size string is raised before any call to the
\* store or the filesystem is made in the invocation (no connection check,
\* listing, report or delete), and none is made after it
C10_ParseErrorBeforeAnyCall ==
    (InClean /\ raised \in {"ValueError", "OverflowError", "InvalidSize"})
        => calls = <<>>

\* the plan of clean_objects: the matched objects, cut to the limit
Plan == Truncate(Matched, args.max_deletions)

\* the counts that the responses of the store give: the keys in Deleted, and
\* the keys in Errors or in a call that raised
RECURSIVE ExpectedSuccessful(_)
ExpectedSuccessful(cs) ==
    IF Len(cs) = 0 THEN 0
    ELSE (IF Head(cs).ok THEN Len(Response(Head(cs).keys, Head(cs).answer).Deleted)
          ELSE 0) + ExpectedSuccessful(Tail(cs))
RECURSIVE ExpectedFailed(_)
ExpectedFailed(cs) ==
    IF Len(cs) = 0 THEN 0
    ELSE (IF Head(cs).ok THEN Len(Response(Head(cs).keys, Head(cs).answer).Errors)
          ELSE Len(Head(cs).keys)) + ExpectedFailed(Tail(cs))

ReportFailed ==
    \E k \in 1..Len(calls) : calls[k].api = "export_to_csv" /\ ~calls[k].ok

\* C11: when export_to_csv returns failure, clean_objects is not aborted:
\* the keys of the plan are submitted for deletion and the summary holds the
\* counts of the listing, the plan and the store's responses, as in a run
\* whose report was written or not asked for
C11_ReportFailureDoesNotAbort ==
    (InClean /\ ReportFailed)
        => /\ raised = "none" /\ pc # "raised" /\ exit_code # 1
           /\ pc \in {"batch", "chunk", "await", "batch_done"} => keys = KeysOf(Plan)
           /\ results # None
                => /\ results.total_objects = Len(all_objects)
                   /\ results.matched_objects = Len(Plan)
                   /\ results.total_size_bytes = SumSizes(Plan)
           /\ (pc \in {"returned", "exited"} /\ (args.confirm \/ ~args.dry_run))
                => /\ Flatten(DeleteCalls) = KeysOf(Plan)
                   /\ results.deleted_objects = ExpectedSuccessful(DeleteCalls)
                   /\ results.failed_deletions = ExpectedFailed(DeleteCalls)

\* a confirmed run whose report could not be written has deleted objects
C11_Witness ==
    /\ InClean /\ ReportFailed /\ args.confirm
    /\ pc = "returned"
    /\ results.deleted_objects > 0
    /\ Len(deleted) > 0

ListFailed ==
    \E k \in 1..Len(calls) : calls[k].api = "list_objects_v2" /\ ~calls[k].ok

\* C12: when a page of the listing fails, the error leaves list_objects and
\* clean_objects: the run ends with the error, no report is written, no
\* delete call is made, and the objects of the pages fetched before are
\* neither filtered nor planned for deletion
C12_ListingFailureAborts ==
    (InClean /\ ListFailed)
        => /\ raised = "ClientError"
           /\ pc \in {"raised", "exited"}
           /\ args.entry = "cli" => (pc = "exited" /\ exit_code = 1)
           /\ ~calls[Len(calls)].ok /\ calls[Len(calls)].api = "list_objects_v2"
           /\ \A k \in 1..Len(calls) :
                calls[k].api \notin {"export_to_csv", "delete_objects", "delete_object"}
           /\ filtered_objects = <<>> /\ keys = <<>> /\ results = None
           /\ deleted = <<>>

\* the second page of a listing failed in a confirmed run that asked for a
\* report, after the first page had brought objects
C12_Witness ==
    /\ InClean /\ ListFailed
    /\ Len(all_objects) = PageSize
    /\ Len(Listing) > PageSize
    /\ args.confirm
    /\ TruthySeq(args.generate_report)

\* one of --older-than, --since, --exclude, --suffix, --min-size, --max-size
\* is on the command line
FilterFlagGiven ==
    \/ args.older_than.some \/ args.since.some \/ args.exclude_patterns.some
    \/ args.suffix.some \/ args.min_size.some \/ args.max_size.some

\* main has refused to run: it exited non-zero with no cleaner built and no
\* call made
Refused == pc = "exited" /\ exit_code # 0 /\ calls = <<>> /\ raised = "none"

\* C13: the command line is refused exactly when none of the six filter
\* flags is given; any one of them alone lets the run proceed
C13_RefusedExactlyWithoutFilter ==
    (args.entry = "cli" /\ pc # "main") => (Refused <=> ~FilterFlagGiven)

\* C14: main exits with status 0 whenever clean_objects returned (also with
\* nothing matched, also with failed deletions), and with a non-zero status
\* when the arguments are refused, a filter string is invalid, or the
\* connection check or the listing fails
C14_ExitCodes ==
    args.entry = "cli"
        => /\ pc # "exited" => exit_code = -1
           /\ pc # "raised"
           /\ pc = "exited"
                => /\ exit_code \in {0, 1}
                   /\ exit_code = 0 <=> (results # None /\ ret = results /\ raised = "none")
                   /\ Refused => exit_code = 1
                   /\ raised \in {"ValueError", "OverflowError", "InvalidSize",
                                  "ConnectionError", "ClientError"}
                        => exit_code = 1

\* a run in which every deletion failed has ended with status 0
C14_Witness ==
    /\ args.entry = "cli" /\ pc = "exited" /\ exit_code = 0
    /\ results.failed_deletions > 0
    /\ results.deleted_objects = 0

\* C15: clean_objects makes delete calls only if confirm is given or the
\* cleaner was built with dry_run = False; a run from the command line,
\* where dry_run is always True, makes delete calls if and only if --confirm
\* is given and at least one object matches
C15_DeleteOnlyOnConfirm ==
    /\ (InClean /\ Len(DeleteCalls) > 0) => (args.confirm \/ ~args.dry_run)
    /\ args.entry = "cli"
         => /\ args.dry_run
            /\ (pc = "exited" /\ exit_code = 0)
                 => (Len(DeleteCalls) > 0 <=> (args.confirm /\ Len(Matched) > 0))
            /\ (pc = "exited" /\ exit_code # 0) => Len(DeleteCalls) = 0

\* a run from the command line with --confirm has made a delete call
C15_Witness ==
    /\ args.entry = "cli" /\ args.confirm
    /\ pc = "exited" /\ exit_code = 0
    /\ Len(DeleteCalls) > 0
    /\ Len(Matched) > 0

\* the chunks of the plan that were not answered yet
ChunksLeft == (Len(keys) - i + batch_size - 1) \div batch_size

\* C16: with max_workers > 1 and a plan of two chunks or more, the chunk
\* calls are dispatched across a pool of max_workers workers: while
\* delete_objects_batch waits for the store, as many calls are in flight
\* as the pool and the chunks left allow, never more than max_workers, and
\* each call carries a whole chunk
C16_WorkerPoolDispatch ==
    (pc = "await" /\ max_workers > 1 /\ Len(keys) > batch_size)
        => /\ InFlight <= max_workers
           /\ InFlight = (IF ChunksLeft < max_workers THEN ChunksLeft ELSE max_workers)

\* the keys the store deletes for the calls made, in order
RECURSIVE ExpectedDeleted(_)
ExpectedDeleted(cs) ==
    IF Len(cs) = 0 THEN <<>>
    ELSE DeletedBy(Head(cs).keys, Head(cs).answer) \o ExpectedDeleted(Tail(cs))

\* C17: the pair that delete_objects_batch returns and the keys that the
\* store deletes are determined by the key list and the answers of the
\* store to the chunks, in plan order; they are the same with max_workers
\* = 1 and with max_workers > 1
C17_SameResultForEveryConcurrency ==
    pc = "batch_done"
        => LET n == Len(keys)
               chunk(k) == SubSeq(keys, (k - 1) * batch_size + 1,
                                  IF k * batch_size < n THEN k * batch_size ELSE n)
           IN  /\ Len(DeleteCalls) = (n + batch_size - 1) \div batch_size
               /\ \A k \in 1..Len(DeleteCalls) : DeleteCalls[k].keys = chunk(k)
               /\ n > 0 => ret = <<ExpectedSuccessful(DeleteCalls),
                                   ExpectedFailed(DeleteCalls)>>
               /\ n = 0 => ret = <<0, 0>>
               /\ deleted = ExpectedDeleted(DeleteCalls)

\* 1500 keys with four workers: the first chunk came back with every other
\* key in Errors, the answer to the second was lost after the store acted
C17_Witness ==
    /\ pc = "batch_done"
    /\ max_workers = 4
    /\ Len(keys) = 1500
    /\ DeleteCalls[1].answer = "alternate"
    /\ DeleteCalls[2].answer = "raise_late"
    /\ ret = <<500, 1000>>
    /\ Len(deleted) = 1000

\* cs is the beginning of ks
IsPrefix(cs, ks) == Len(cs) <= Len(ks) /\ SubSeq(ks, 1, Len(cs)) = cs

\* C18: when clean_objects makes its first delete call the listing was
\* read to its end, the filters were applied to all of it and the limit
\* was applied; the keys to delete are fixed then, and the answers of the
\* store do not change them
C18_PlanFixedBeforeDeletion ==
    (InClean /\ (pc = "await" \/ Len(DeleteCalls) > 0))
        => /\ all_objects = Listing
           /\ filtered_objects = Plan
           /\ keys = KeysOf(Plan)
           /\ IsPrefix(Flatten(DeleteCalls), keys)

\* a listing of two pages was read, two objects or more matched, the limit
\* of one was applied and a delete call was made
C18_Witness ==
    /\ InClean /\ Len(DeleteCalls) > 0
    /\ page = 2
    /\ Len(all_objects) > PageSize
    /\ args.max_deletions = Some(1)
    /\ Len(Matched) > 1
    /\ keys = KeysOf(Plan) /\ Len(keys) = 1

\* C19: filter_objects raises for no listing and no bounds that
\* parse_time_filter and parse_size_filter return, a min_date read from a
\* `since` string without timezone included
C19_FilterNeverRaises ==
    InClean => raised # "TypeError"

\* clean_objects has filtered the listing and applied the limit
PlanReady ==
    /\ InClean
    /\ pc \notin {"main", "construct", "clean", "list", "filter", "raised"}
    /\ pc = "exited" => results # None

\* the objects of list a stand in list b, in the same order
InOrderOf(a, b) ==
    /\ \A k \in 1..Len(a) : \E j \in 1..Len(b) : b[j] = a[k]
    /\ \A k, m \in 1..Len(a) :
         k < m => (CHOOSE j \in 1..Len(b) : b[j] = a[k])
                    < (CHOOSE j \in 1..Len(b) : b[j] = a[m])

C25_ZeroSizeBoundApplied ==
    (PlanReady /\ args.max_size = Some(Size0))
        => \A k \in 1..Len(filtered_objects) : filtered_objects[k].Size = 0

\* C26: when no object matches the filters, clean_objects does not call
\* delete_objects_batch and makes no delete call, with confirm set too,
\* and its summary has deleted_objects = 0 and failed_deletions = 0;
\* delete_objects_batch on an empty key list returns (0, 0) and makes no
\* call to the store
C26_NothingMatchedNothingDeleted ==
    /\ (PlanReady /\ Len(Matched) = 0)
         => /\ Len(DeleteCalls) = 0 /\ deleted = <<>>
            /\ pc \notin {"batch", "chunk", "await", "batch_done"}
            /\ results # None
                 => (results.deleted_objects = 0 /\ results.failed_deletions = 0)
    /\ (args.entry = "batch" /\ Len(keys) = 0)
         => /\ calls = <<>>
            /\ pc \in {"batch", "batch_done"}
            /\ pc = "batch_done" => ret = <<0, 0>>

\* a confirmed run listed objects, none matched, and it returned a
\* summary with no deletion
C26_Witness ==
    /\ PlanReady /\ args.confirm
    /\ pc = "returned"
    /\ Len(all_objects) > 0 /\ Len(Matched) = 0
    /\ results.deleted_objects = 0 /\ results.failed_deletions = 0
    /\ ~results.dry_run
    /\ Len(DeleteCalls) = 0

\* C27: every key that clean_objects submits for deletion is the key of an
\* object of this run's listing (made with the instance prefix) that none
\* of the criteria that were set rejects
C27_OnlyFilteredKeysSubmitted ==
    InClean
        => \A c \in 1..Len(DeleteCalls) : \A k \in 1..Len(DeleteCalls[c].keys) :
             \E j \in 1..Len(Listing) :
                /\ Listing[j].Key = DeleteCalls[c].keys[k]
                /\ ~Rejected(Listing[j], parsed)

\* the number of keys in the delete calls before call c
RECURSIVE Offset(_)
Offset(c) == IF c <= 1 THEN 0 ELSE Offset(c - 1) + Len(DeleteCalls[c - 1].keys)

\* C28: the chunks of delete_objects_batch partition the key list: call c
\* carries the keys that follow those of the calls before it, in the
\* order of the list; the calls made so far cover the first i positions
\* of the list, each position once, and on return they cover all of it
C28_ChunksPartitionKeys ==
    pc \in {"chunk", "await", "batch_done"}
        => LET n == Len(DeleteCalls)
               sent == Offset(n + 1)
           IN  /\ \A c \in 1..n :
                    /\ Len(DeleteCalls[c].keys) > 0
                    /\ Offset(c) + Len(DeleteCalls[c].keys) <= Len(keys)
                    /\ DeleteCalls[c].keys
                         = SubSeq(keys, Offset(c) + 1, Offset(c) + Len(DeleteCalls[c].keys))
               /\ sent = (IF i < Len(keys) THEN i ELSE Len(keys))
               /\ pc = "batch_done" => sent = Len(keys)

\* 1001 keys went out as keys 1..1000 and then key 1001
C28_Witness ==
    /\ pc = "batch_done"
    /\ Len(keys) = 1001
    /\ Len(DeleteCalls) = 2
    /\ DeleteCalls[1].keys = SubSeq(keys, 1, 1000)
    /\ DeleteCalls[2].keys = <<keys[1001]>>

\* the positions in calls of the export_to_csv calls
Exports == {k \in 1..Len(calls) : calls[k].api = "export_to_csv"}

\* C29: when a report is requested, clean_objects writes it once, before
\* every delete call, in a dry run, in a confirmed run and with an empty
\* plan alike, and its rows are the objects of the plan after the limit,
\* in plan order; without the request no report is written
C29_ReportBeforeDeleteOfPlan ==
    InClean
        => /\ ~TruthySeq(args.generate_report) => Exports = {}
           /\ (TruthySeq(args.generate_report) /\ PlanReady /\ pc # "report")
                => /\ Cardinality(Exports) = 1
                   /\ \A k \in Exports :
                        /\ calls[k].keys = KeysOf(Plan)
                        /\ calls[k].keys = KeysOf(filtered_objects)
           /\ \A k \in Exports : \A j \in 1..Len(calls) :
                calls[j].api = "delete_objects" => k < j
           /\ pc = "await" /\ TruthySeq(args.generate_report) => Exports # {}

\* two objects matched, the limit of one cut the plan, the report got the
\* one row of the plan and the key was then submitted for deletion
C29_Witness ==
    /\ InClean /\ pc = "batch_done"
    /\ args.max_deletions = Some(1)
    /\ Len(Matched) = 2
    /\ \E k \in Exports : calls[k].keys = <<Matched[1].Key>>
    /\ Len(DeleteCalls) = 1
    /\ DeleteCalls[1].keys = <<Matched[1].Key>>

----------------------------------------------------------------------------
(* Properties of filter_objects, under SpecFilter. *)

\* C7: filter_objects yields a record exactly when none of the eight
\* rejection conditions holds for it
C7_YieldsExactlyUnrejected ==
    pc = "done"
        => filtered_objects = SelectSeq(all_objects, LAMBDA o : ~Rejected(o, parsed))

\* C8: applying the exclude filter and then the suffix filter, or the
\* suffix filter and then the exclude filter, leaves the objects that one
\* call of filter_objects with both criteria yields
C8_OrderIndependent ==
    (applied = {"exclude", "suffix"} /\ pc # "raised")
        => filtered_objects =
             filter_objects(all_objects, Restrict(parsed, {"exclude", "suffix"})).objects

\* logs/a.log, logs/b.txt and data/c.log filtered by suffix ".log" and
\* exclude ["logs/"] leave data/c.log
C8_Witness ==
    /\ applied = {"exclude", "suffix"}
    /\ parsed.suffix = Some(SufLog)
    /\ parsed.exclude_patterns = Some(<<PatLogs>>)
    /\ KeysOf(all_objects) = <<KeyC, KeyA, KeyB>>
    /\ KeysOf(filtered_objects) = <<KeyC>>

\* the minutes of a datetime since day 0
Minutes(d) == d.day * 1440 + d.min

\* obj lies strictly outside one of the time and size bounds of f
StrictlyOutside(obj, f) ==
    \/ f.min_date.some /\ Minutes(obj.LastModified) < Minutes(f.min_date.v)
    \/ f.max_date.some /\ Minutes(obj.LastModified) > Minutes(f.max_date.v)
    \/ f.min_size.some /\ obj.Size < f.min_size.v
    \/ f.max_size.some /\ obj.Size > f.max_size.v

\* obj lies on one of the time and size bounds of f
OnBound(obj, f) ==
    \/ f.min_date.some /\ obj.LastModified = f.min_date.v
    \/ f.max_date.some /\ obj.LastModified = f.max_date.v
    \/ f.min_size.some /\ obj.Size = f.min_size.v
    \/ f.max_size.some /\ obj.Size = f.max_size.v

\* C24: the time and size bounds are inclusive on both ends: an object
\* whose LastModified equals min_date or max_date, or whose Size equals
\* min_size or max_size, passes these filters unless it is strictly
\* outside another bound, and every object they remove is strictly
\* outside a bound
C24_BoundsInclusive ==
    (applied # {} /\ applied \subseteq {"time", "size"} /\ pc # "raised")
        => \A k \in 1..Len(all_objects) :
             LET obj == all_objects[k]
                 f == Restrict(parsed, applied)
                 kept == \E j \in 1..Len(filtered_objects) : filtered_objects[j] = obj
             IN  /\ (OnBound(obj, f) /\ ~StrictlyOutside(obj, f)) => kept
                 /\ ~kept => StrictlyOutside(obj, f)

\* logs/b.txt, modified at max_date and of min_size = max_size bytes, is
\* kept, and the objects before min_date or smaller than min_size are not
C24_Witness ==
    /\ applied = {"time", "size"}
    /\ pc # "raised"
    /\ parsed.max_date.some /\ parsed.min_size = Some(1048576)
    /\ parsed.max_size = Some(1048576)
    /\ KeysOf(all_objects) = <<KeyD, KeyA, KeyB>>
    /\ KeysOf(filtered_objects) = <<KeyB>>
    /\ filtered_objects[1].LastModified = parsed.max_date.v
    /\ filtered_objects[1].Size = parsed.min_size.v

----------------------------------------------------------------------------
(* Properties of parse_time_filter, under SpecParse. *)

\* clock - n units, by the calendar: whole days and minutes of a day
Before(clock, n, unit) ==
    LET whole == CASE unit = "d" -> n
                   [] unit = "w" -> 7 * n
                   [] unit = "h" -> n \div 24
                   [] unit = "m" -> n \div 1440
        part == CASE unit = "h" -> (n % 24) * 60
                  [] unit = "m" -> n % 1440
                  [] OTHER -> 0
    IN  DateTime(clock.day - whole - (IF clock.min < part THEN 1 ELSE 0),
                 (clock.min - part) % 1440, clock.tz)

\* a call parse_time_filter(older_than, None) has returned or raised
TimeParsed ==
    /\ pc = "done"
    /\ "max_date" \in DOMAIN ret
    /\ TruthySeq(args.older_than)
    /\ ~TruthySeq(args.since)

\* C9 as stated: a string <n><unit> with unit in {d, h, m, w} gives
\* max_date = now - n * unit; a unit outside the set or a numeric part
\* that is no integer raises the invalid-filter error with no bounds
C9_ParseTimeAsStated ==
    TimeParsed
        => LET unit == Last(args.older_than.v)
               n == PyInt(ButLast(args.older_than.v))
           IN  IF unit \in {"d", "h", "m", "w"} /\ n.ok
               THEN /\ ret.raised = "none"
                    /\ ret.max_date = Some(Before(now, n.v, unit))
               ELSE /\ ret.raised = "ValueError"
                    /\ ret.max_date = None /\ ret.min_date = None

\* C9, amended: the unit is the last character lower-cased; when it is in
\* {d, h, m, w} and int() reads the rest as n, max_date = now - n * unit
\* provided 7 * |n| days is a timedelta and now - n * unit is a datetime,
\* and OverflowError is raised otherwise; when int() rejects the rest, or
\* the unit is outside the set, ValueError is raised (OverflowError when
\* the number is read and 7 * |n| days is no timedelta); no bounds are
\* returned when an error is raised
C9_ParseTime ==
    TimeParsed
        => LET unit == Lower(Last(args.older_than.v))
               n == PyInt(ButLast(args.older_than.v))
               valid == unit \in {"d", "h", "m", "w"}
               small == n.v <= 142857142 /\ n.v >= -142857142
               cut == Before(now, n.v, unit)
           IN  /\ ret.min_date = None
               /\ ret.raised # "none" => ret.max_date = None
               /\ ret.raised =
                    (IF ~n.ok THEN "ValueError"
                     ELSE IF ~small THEN "OverflowError"
                     ELSE IF ~valid THEN "ValueError"
                     ELSE IF cut.day < 1 \/ cut.day > 3652059 THEN "OverflowError"
                     ELSE "none")
               /\ ret.raised = "none" => ret.max_date = Some(cut)

\* "7D" was read as seven days: max_date is 2026-10-27 00:10
C9_Witness ==
    /\ TimeParsed
    /\ args.older_than = Some(<<"7", "D">>)
    /\ ret.raised = "none"
    /\ ret.max_date = Some(DateTime(739916, 10, TRUE))

\* C30: for every older_than string that parse_time_filter accepts, the
\* max_date returned is not later than the clock read by the call
C30_CutoffNotInFuture ==
    (TimeParsed /\ ret.raised = "none" /\ ret.max_date.some)
        => ~DtLess(now, ret.max_date.v)

----------------------------------------------------------------------------
(* Properties of parse_size_filter, under SpecParse. *)

\* the bytes of size string s are b, counted with units of 1024
BinaryBytes(s, b) ==
    /\ s = Some(Size1MB) => b = Some(1048576)
    /\ s = Some(Size500KB) => b = Some(512000)
    /\ s = Some(Size2GB) => (b.some /\ b.v % 1024 = 0 /\ b.v \div 1024 = 2097152)

\* C20: parse_size_filter reads size strings with units of 1024: "1MB" is
\* 1,048,576 bytes, "500KB" is 512,000 and "2GB" is 2,147,483,648
C20_BinaryUnits ==
    (pc = "done" /\ "min_bytes" \in DOMAIN ret /\ ret.raised = "none")
        => /\ BinaryBytes(args.min_size, ret.min_bytes)
           /\ BinaryBytes(args.max_size, ret.max_bytes)

----------------------------------------------------------------------------
(* Properties of the single operations of S3Utils, under SpecOps. *)

\* C22: upload_object and delete_object return False when the store call
\* fails and True when it succeeds, and raise nothing: after a failed put
\* or delete the caller goes on and can issue the next operation
C22_FailureIsReturnedNotRaised ==
    /\ raised = "none"
    /\ pc = "ops"
    /\ \A k \in 1..Len(returns) :
         returns[k].op \in {"upload_object", "delete_object"}
            => returns[k].value = calls[returns[k].call].ok

\* a put failed and returned False, and the caller then deleted an object
C22_Witness ==
    /\ Len(returns) >= 2
    /\ returns[1].op = "upload_object" /\ ~returns[1].value
    /\ returns[2].op = "delete_object" /\ returns[2].value
    /\ ~calls[1].ok /\ calls[2].ok

\* the calls of ensure_bucket_exists made so far, in order
Ensured == SelectSeq(returns, LAMBDA r : r.op = "ensure_bucket_exists")

====
